---- MODULE Spec2Model ----
(***************************************************************************)
(* SSH GUI Manager (src/ssh_gui_manager.py): the profile catalogue, its    *)
(* JSON persistence, the ssh command builder and the terminal discovery.   *)
(*                                                                         *)
(* Python str values are TLA+ strings (Len, \o and SubSeq act on them).    *)
(* Python list positions are 0-based; the model's positions are 1-based,   *)
(* position k of the model is Python index k-1.                            *)
(***************************************************************************)
EXTENDS Integers, Sequences, FiniteSets, TLC

VARIABLES
    doc,        \* DATA_FILE: the persisted document, as the JSON value it holds
    profiles,   \* MainWindow.profiles
    search,     \* MainWindow.search.text()
    list,       \* MainWindow.list: per row, the UserRole index into profiles
    cur,        \* MainWindow.list.currentRow(), 0 when there is no current row
    details,    \* MainWindow.details: the command line shown for the selection
    last,       \* the handler that ran last, the index it acted on, its input
    written,    \* TRUE once save_profiles has written DATA_FILE
    env,        \* the executables shutil.which finds on the search path
    term_argv,  \* connect_selected: what pick_terminal_command returned
    spawned,    \* connect_selected: the argv subprocess.Popen started
    input       \* round-trip check: the collection first handed to save

vars == <<doc, profiles, search, list, cur, details, last, written, env,
          term_argv, spawned, input>>

----------------------------------------------------------------------------
(* Bounds of the model *)

\* add_profile and duplicate_profile stop growing the collection here
MaxProfiles == 3
\* duplicate_profile stops appending " (copy)" beyond this name length
MaxNameLen == 15
\* longest document (number of records) found on disk at startup
MaxDocLen == 2
\* longest collection handed to the save/load round trip
MaxRT == 2

----------------------------------------------------------------------------
(* str helpers *)

Char(s, i) == SubSeq(s, i, i)

Digits == "0123456789"
UpperCase == "ABCDEFGHIJKLMNOPQRSTUVWXYZ"
LowerCase == "abcdefghijklmnopqrstuvwxyz"

\* str.strip() with no argument removes leading and trailing whitespace
IsSpace(c) == c \in {" ", "\t", "\n", "\r"}

RECURSIVE lstrip(_)
lstrip(s) ==
    IF Len(s) > 0 /\ IsSpace(Char(s, 1))
    THEN lstrip(SubSeq(s, 2, Len(s)))
    ELSE s

RECURSIVE rstrip(_)
rstrip(s) ==
    IF Len(s) > 0 /\ IsSpace(Char(s, Len(s)))
    THEN rstrip(SubSeq(s, 1, Len(s) - 1))
    ELSE s

strip(s) == rstrip(lstrip(s))

\* str.lower() on one character: the ASCII capitals map to their small letters
ToLower ==
    [c \in {Char(UpperCase, i) : i \in 1..26} |->
        Char(LowerCase, CHOOSE i \in 1..26 : Char(UpperCase, i) = c)]

lower_char(c) == IF c \in DOMAIN ToLower THEN ToLower[c] ELSE c

\* str.lower(), character by character
RECURSIVE lower(_)
lower(s) ==
    IF Len(s) = 0 THEN ""
    ELSE IF Len(s) = 1 THEN lower_char(s)
    ELSE lower(SubSeq(s, 1, Len(s) \div 2))
         \o lower(SubSeq(s, (Len(s) \div 2) + 1, Len(s)))

\* Python's `term in hay`
contains(term, hay) ==
    \E i \in 1..(Len(hay) - Len(term) + 1) :
        SubSeq(hay, i, i + Len(term) - 1) = term

\* sep.join(parts)
RECURSIVE join(_, _)
join(sep, parts) ==
    IF parts = <<>> THEN ""
    ELSE IF Len(parts) = 1 THEN parts[1]
    ELSE parts[1] \o sep \o join(sep, Tail(parts))

\* str(n) of an int
RECURSIVE str(_)
str(n) ==
    IF n < 0 THEN "-" \o str(-n)
    ELSE IF n < 10 THEN Char(Digits, n + 1)
    ELSE str(n \div 10) \o Char(Digits, (n % 10) + 1)

IsDigit(c) == \E i \in 1..10 : Char(Digits, i) = c
DigitVal(c) == (CHOOSE i \in 1..10 : Char(Digits, i) = c) - 1

RECURSIVE all_digits(_)
all_digits(s) ==
    s = "" \/ (IsDigit(Char(s, 1)) /\ all_digits(SubSeq(s, 2, Len(s))))

RECURSIVE dec_value(_, _)
dec_value(s, acc) ==
    IF s = "" THEN acc
    ELSE dec_value(SubSeq(s, 2, Len(s)), 10 * acc + DigitVal(Char(s, 1)))

\* int(s) of a str: surrounding whitespace is ignored, an optional sign, then
\* decimal digits; anything else raises ValueError (ok = FALSE).  Digit
\* separators ("1_000") are outside the alphabet of the modelled documents.
int_of_str(s) ==
    LET t == strip(s)
        neg == Len(t) > 0 /\ Char(t, 1) = "-"
        signed == Len(t) > 0 /\ Char(t, 1) \in {"-", "+"}
        d == IF signed THEN SubSeq(t, 2, Len(t)) ELSE t
    IN  IF d # "" /\ all_digits(d)
        THEN [ok |-> TRUE, v |-> IF neg THEN 0 - dec_value(d, 0) ELSE dec_value(d, 0)]
        ELSE [ok |-> FALSE, v |-> 0]

----------------------------------------------------------------------------
(* SSHProfile *)

SSHProfile(name, host, user, port, identity_file, jump_host, extra_args) ==
    [name |-> name, host |-> host, user |-> user, port |-> port,
     identity_file |-> identity_file, jump_host |-> jump_host,
     extra_args |-> extra_args]

\* Python's None where a profile is expected
None == SSHProfile("", "", "", 0 - 1, "", "", "")

----------------------------------------------------------------------------
(* JSON values of the persisted document.  The JSON codec itself (json.loads, *)
(* json.dumps) is a library; the document is modelled as the value it holds.  *)

JAbsent == [t |-> "absent", s |-> "", n |-> 0]       \* key not in the object
JNull == [t |-> "null", s |-> "", n |-> 0]
JStr(x) == [t |-> "str", s |-> x, n |-> 0]
JInt(k) == [t |-> "int", s |-> "", n |-> k]

JObject(name, host, user, port, identity_file, jump_host, extra_args) ==
    [obj |-> TRUE, name |-> name, host |-> host, user |-> user, port |-> port,
     identity_file |-> identity_file, jump_host |-> jump_host,
     extra_args |-> extra_args]

\* an element of the array that is not an object (a number, a string, ...)
JNonObject ==
    [obj |-> FALSE, name |-> JAbsent, host |-> JAbsent, user |-> JAbsent,
     port |-> JAbsent, identity_file |-> JAbsent, jump_host |-> JAbsent,
     extra_args |-> JAbsent]

\* DATA_FILE does not exist
DocMissing == [kind |-> "missing", items |-> <<>>]
\* DATA_FILE exists and json.loads (or the UTF-8 decoding) raises
DocInvalid == [kind |-> "invalid", items |-> <<>>]
\* DATA_FILE holds a JSON value that is not an array
DocNonList == [kind |-> "nonlist", items |-> <<>>]
DocList(items) == [kind |-> "list", items |-> items]

\* item.get(key, "").strip(): raises on a value that is not a str
get_str(v) ==
    IF v.t = "absent" THEN [ok |-> TRUE, v |-> ""]
    ELSE IF v.t = "str" THEN [ok |-> TRUE, v |-> strip(v.s)]
    ELSE [ok |-> FALSE, v |-> ""]

\* int(item.get("port", 22)): raises TypeError on null, ValueError on a str
\* that is no integer literal
get_port(v) ==
    IF v.t = "absent" THEN [ok |-> TRUE, v |-> 22]
    ELSE IF v.t = "int" THEN [ok |-> TRUE, v |-> v.n]
    ELSE IF v.t = "str" THEN int_of_str(v.s)
    ELSE [ok |-> FALSE, v |-> 0]

\* one iteration of the loop of load_profiles: the SSHProfile(...) call
load_item(item) ==
    LET name == get_str(item.name)
        host == get_str(item.host)
        user == get_str(item.user)
        port == get_port(item.port)
        identity_file == get_str(item.identity_file)
        jump_host == get_str(item.jump_host)
        extra_args == get_str(item.extra_args)
    IN  IF item.obj /\ name.ok /\ host.ok /\ user.ok /\ port.ok
           /\ identity_file.ok /\ jump_host.ok /\ extra_args.ok
        THEN [ok |-> TRUE,
              p |-> SSHProfile(name.v, host.v, user.v, port.v,
                               identity_file.v, jump_host.v, extra_args.v)]
        ELSE [ok |-> FALSE, p |-> None]

\* the for loop of load_profiles; raised = an exception left the loop
RECURSIVE load_loop(_, _)
load_loop(items, out) ==
    IF items = <<>> THEN [raised |-> FALSE, out |-> out]
    ELSE LET r == load_item(Head(items))
         IN  IF r.ok THEN load_loop(Tail(items), Append(out, r.p))
             ELSE [raised |-> TRUE, out |-> <<>>]

\* `p.name and p.host`
has_name_and_host(p) == p.name # "" /\ p.host # ""

load_profiles_skip_filter(d) ==
    IF d.kind # "list" THEN <<>>
    ELSE LET r == load_loop(d.items, <<>>)
         IN  IF r.raised THEN <<>> ELSE r.out

load_profiles(d) ==
    IF d.kind = "missing" THEN <<>>                 \* not DATA_FILE.exists()
    ELSE IF d.kind = "invalid" THEN <<>>            \* json.loads raises
    ELSE IF d.kind = "nonlist" THEN <<>>            \* iteration or .get raises,
                                                    \* or there is nothing to iterate
    ELSE LET r == load_loop(d.items, <<>>)
         IN  IF r.raised THEN <<>>
             ELSE SelectSeq(r.out, has_name_and_host)

\* dataclasses.asdict(p), as json.dumps writes it
asdict(p) ==
    JObject(JStr(p.name), JStr(p.host), JStr(p.user), JInt(p.port),
            JStr(p.identity_file), JStr(p.jump_host), JStr(p.extra_args))

save_profiles_drop_last(ps) ==
    DocList([i \in 1..(Len(ps) - 1) |-> asdict(ps[i])])

save_profiles(ps) == DocList([i \in 1..Len(ps) |-> asdict(ps[i])])

----------------------------------------------------------------------------
(* Terminal discovery and the ssh command line *)

RECURSIVE replace_quote(_)
replace_quote(s) ==
    IF s = "" THEN ""
    ELSE (IF Char(s, 1) = "'" THEN "'\"'\"'" ELSE Char(s, 1))
         \o replace_quote(SubSeq(s, 2, Len(s)))

shlex_quote(s) == "'" \o replace_quote(s) \o "'"

\* the candidates table of pick_terminal_command, in its order
candidates(command_str) == <<
    [exe |-> "gnome-terminal",
     argv |-> <<"gnome-terminal", "--", "bash", "-lc", command_str>>],
    [exe |-> "konsole",
     argv |-> <<"konsole", "-e", "bash", "-lc", command_str>>],
    [exe |-> "xfce4-terminal",
     argv |-> <<"xfce4-terminal", "-e", "bash -lc " \o shlex_quote(command_str)>>],
    [exe |-> "xterm",
     argv |-> <<"xterm", "-e", "bash", "-lc", command_str>>],
    [exe |-> "kitty",
     argv |-> <<"kitty", "bash", "-lc", command_str>>],
    [exe |-> "alacritty",
     argv |-> <<"alacritty", "-e", "bash", "-lc", command_str>>],
    [exe |-> "wezterm",
     argv |-> <<"wezterm", "start", "--", "bash", "-lc", command_str>>] >>

\* shutil.which(exe) is truthy
which(path, exe) == exe \in path

\* `for exe, argv in candidates: if shutil.which(exe): return argv`, from
\* candidate k on; <<>> stands for the None returned when the loop ends
RECURSIVE pick_from(_, _, _)
pick_from(cands, path, k) ==
    IF k > Len(cands) THEN <<>>
    ELSE IF which(path, cands[k].exe) THEN cands[k].argv
    ELSE pick_from(cands, path, k + 1)

pick_terminal_command_last(path, command_str) ==
    LET c == candidates(command_str)
        found == {k \in 1..Len(c) : which(path, c[k].exe)}
    IN  IF found = {} THEN <<>>
        ELSE c[CHOOSE k \in found : \A j \in found : j <= k].argv

pick_terminal_command(path, command_str) ==
    pick_from(candidates(command_str), path, 1)

build_ssh_command_jump_first(p) ==
    join(" ", <<"ssh">>
              \o (IF p.port # 0 THEN <<"-p", str(p.port)>> ELSE <<>>)
              \o (IF p.jump_host # "" THEN <<"-J", p.jump_host>> ELSE <<>>)
              \o (IF p.identity_file # "" THEN <<"-i", p.identity_file>> ELSE <<>>)
              \o (IF p.extra_args # "" THEN <<p.extra_args>> ELSE <<>>)
              \o <<IF p.user # "" THEN p.user \o "@" \o p.host ELSE p.host>>)

build_ssh_command_default_port(p) ==
    join(" ", <<"ssh">>
              \o (IF p.port # 0 /\ p.port # 22 THEN <<"-p", str(p.port)>> ELSE <<>>)
              \o (IF p.identity_file # "" THEN <<"-i", p.identity_file>> ELSE <<>>)
              \o (IF p.jump_host # "" THEN <<"-J", p.jump_host>> ELSE <<>>)
              \o (IF p.extra_args # "" THEN <<p.extra_args>> ELSE <<>>)
              \o <<IF p.user # "" THEN p.user \o "@" \o p.host ELSE p.host>>)

build_ssh_command(p) ==
    LET parts0 == <<"ssh">>
        parts1 == IF p.port # 0                     \* `if p.port:`
                  THEN parts0 \o <<"-p", str(p.port)>> ELSE parts0
        parts2 == IF p.identity_file # ""
                  THEN parts1 \o <<"-i", p.identity_file>> ELSE parts1
        parts3 == IF p.jump_host # ""
                  THEN parts2 \o <<"-J", p.jump_host>> ELSE parts2
        parts4 == IF p.extra_args # ""
                  THEN parts3 \o <<p.extra_args>> ELSE parts3
        target == IF p.user # "" THEN p.user \o "@" \o p.host ELSE p.host
    IN  join(" ", parts4 \o <<target>>)

\* the epilogue connect_selected appends to the command
Epilogue == "; echo; echo 'Session ended. Press Enter to close...'; read"

----------------------------------------------------------------------------
(* ProfileDialog *)

\* ProfileDialog.get_profile on the texts typed into the form f (f.port is
\* the spin box's value); None after the "Missing fields" warning
get_profile_unchecked(f) ==
    SSHProfile(strip(f.name), strip(f.host), strip(f.user), f.port,
               strip(f.identity_file), strip(f.jump_host), strip(f.extra_args))

get_profile(f) ==
    LET name == strip(f.name)
        host == strip(f.host)
    IN  IF name = "" \/ host = "" THEN None
        ELSE SSHProfile(name, host, strip(f.user), f.port,
                        strip(f.identity_file), strip(f.jump_host),
                        strip(f.extra_args))

----------------------------------------------------------------------------
(* MainWindow *)

\* the text refresh_list matches the search term against
hay(p) == lower(join(" ", <<p.name, p.host, p.user, p.jump_host, p.extra_args>>))

\* refresh_list: the rows of the rebuilt list, each holding its index
rows(ps, text) ==
    LET term == lower(strip(text))
        shown(k) == ~(term # "" /\ ~contains(term, hay(ps[k])))
        RECURSIVE walk(_)
        walk(k) == IF k > Len(ps) THEN <<>>
                   ELSE IF shown(k) THEN <<k>> \o walk(k + 1)
                   ELSE walk(k + 1)
    IN  walk(1)

\* selected_profile, for a list `l` with current row `c` over collection `ps`
selected_profile(ps, l, c) ==
    IF c = 0 THEN None                              \* no current item
    ELSE IF l[c] \notin 1..Len(ps) THEN None        \* `except Exception`
    ELSE ps[l[c]]

\* on_select: the text of the details panel; of the panel's text only the
\* command line is modelled
on_select(ps, l, c) ==
    LET p == selected_profile(ps, l, c)
    IN  IF p = None THEN "Select a profile."
        ELSE build_ssh_command(p)

\* refresh_list clears the list (no current row), refills it and makes row 0
\* current when there is a row; currentItemChanged runs on_select
refresh_list(ps, text) ==
    LET r == rows(ps, text)
        c == IF Len(r) > 0 THEN 1 ELSE 0
    IN  /\ list' = r
        /\ cur' = c
        /\ details' = on_select(ps, r, c)

\* list.index(p): the first position holding a profile equal to p
index(ps, p) == CHOOSE k \in 1..Len(ps) : ps[k] = p /\ \A j \in 1..(k - 1) : ps[j] # p

\* list.remove(p): the list without the first profile equal to p
remove(ps, p) ==
    LET k == index(ps, p)
    IN  SubSeq(ps, 1, k - 1) \o SubSeq(ps, k + 1, Len(ps))

Done(op, idx, arg) == [op |-> op, idx |-> idx, arg |-> arg]

----------------------------------------------------------------------------
(* Inputs: what the user types, what is found on disk, what is on the path *)

SeqsUpTo(S, n) == UNION {[1..k -> S] : k \in 0..n}

\* texts typed into the ProfileDialog (port: the spin box, range 1..65535)
Forms == {
    SSHProfile("web1", "10.0.0.5", "alice", 2222, "/home/a/.ssh/id", "", "-A"),
    SSHProfile("x", "h", "", 22, "", "", ""),
    SSHProfile(" x ", "h\t", " ", 22, "", " ", ""),
    SSHProfile("", "h", "", 22, "", "", ""),
    SSHProfile("y", "   ", "bob", 22, "", "", "") }

\* texts typed into the search box
SearchTexts == {"", " WEB"}

\* records found in the document at startup
DocItems == {
    JObject(JStr("x"), JStr("h"), JAbsent, JAbsent, JAbsent, JAbsent, JAbsent),
    JObject(JStr(" x "), JStr("h "), JStr(""), JStr(" 22 "), JStr(""), JStr(""), JStr("")),
    JObject(JStr("bad"), JStr(""), JStr(""), JInt(22), JStr(""), JStr(""), JStr("")),
    JObject(JStr("  "), JStr("h"), JStr(""), JInt(22), JStr(""), JStr(""), JStr("")),
    JObject(JStr("p"), JStr("h"), JStr(""), JStr("abc"), JStr(""), JStr(""), JStr("")),
    JObject(JStr("q"), JStr("h"), JStr(""), JNull, JStr(""), JStr(""), JStr("")),
    JObject(JNull, JStr("h"), JAbsent, JAbsent, JAbsent, JAbsent, JAbsent),
    JNonObject }

Docs == {DocMissing, DocInvalid, DocNonList}
        \cup {DocList(items) : items \in SeqsUpTo(DocItems, MaxDocLen)}

\* the candidates' executable names
Terminals == {candidates("")[k].exe : k \in 1..Len(candidates(""))}

\* profiles whose command line is built: every combination of the optional
\* fields, and the two profiles of the documented scenarios
BuildProfiles ==
    {SSHProfile("n", "h", u, pt, i, j, x) :
        u \in {"", "u"}, pt \in {0, 7, 22, 2222}, i \in {"", "/k"},
        j \in {"", "j"}, x \in {"", "-A -o B=1"}}
    \cup {SSHProfile("web1", "10.0.0.5", "alice", 2222, "/home/a/.ssh/id", "", "-A"),
          SSHProfile("x", "h", "", 22, "", "", "")}

\* collections handed to the round trip: every entry has a non-empty name
\* and a non-empty host
RoundTripProfiles == {
    SSHProfile("x", "h", "", 22, "", "", ""),
    SSHProfile("web1", "10.0.0.5", "alice", 2222, "/home/a/.ssh/id", "gw", "-A"),
    SSHProfile(" x", "h", "", 22, "", "", ""),
    SSHProfile("x", "h", "u ", 22, "", "", ""),
    SSHProfile("  ", "h", "", 22, "", "", ""),
    SSHProfile("z", "h", "", 0, "", "", "") }

----------------------------------------------------------------------------
(* The catalogue: startup and the handlers of MainWindow *)

\* before MainWindow is constructed: only the document on disk exists
Init ==
    /\ doc \in Docs
    /\ profiles = <<>>
    /\ search = ""
    /\ list = <<>>
    /\ cur = 0
    /\ details = ""
    /\ last = Done("start", 0, None)
    /\ written = FALSE
    /\ env = {}
    /\ term_argv = <<>>
    /\ spawned = <<>>
    /\ input = <<>>

started == last.op \notin {"start", "rt_start", "rt_saved", "rt_loaded", "rt_resaved"}

\* MainWindow.__init__: load_profiles, then refresh_list and on_select
MainWindow_init ==
    /\ last.op = "start"
    /\ profiles' = load_profiles(doc)
    /\ search' = ""
    /\ refresh_list(profiles', "")
    /\ last' = Done("init", 0, None)
    /\ UNCHANGED <<doc, written, env, term_argv, spawned, input>>

\* the user makes another row current: currentItemChanged runs on_select
select_row ==
    /\ started
    /\ \E r \in 1..Len(list) :
        /\ r # cur
        /\ cur' = r
        /\ details' = on_select(profiles, list, r)
    /\ last' = Done("select", 0, None)
    /\ UNCHANGED <<doc, profiles, search, list, written, env, term_argv,
                   spawned, input>>

\* the user changes the search text: textChanged runs refresh_list
search_changed ==
    /\ started
    /\ \E text \in SearchTexts :
        /\ text # search
        /\ search' = text
        /\ refresh_list(profiles, text)
    /\ last' = Done("search", 0, None)
    /\ UNCHANGED <<doc, profiles, written, env, term_argv, spawned, input>>

\* a handler that returns without touching the collection or the document
returns(op) ==
    /\ last' = Done(op, 0, None)
    /\ UNCHANGED <<doc, profiles, search, list, cur, details, written, env,
                   term_argv, spawned, input>>

\* the tail common to the four mutating handlers, for the new collection ps
saved(ps) ==
    /\ profiles' = ps
    /\ doc' = save_profiles(ps)
    /\ written' = TRUE
    /\ refresh_list(ps, search)
    /\ UNCHANGED <<search, env, term_argv, spawned, input>>

add_profile ==
    /\ started
    /\ \E accepted \in BOOLEAN, f \in Forms :
        IF ~accepted THEN returns("add_cancelled")
        ELSE LET p == get_profile(f)
             IN  IF p = None THEN returns("add_rejected")
                 ELSE /\ Len(profiles) < MaxProfiles
                      /\ saved(Append(profiles, p))
                      /\ last' = Done("add", Len(profiles) + 1, p)

edit_profile ==
    /\ started
    /\ LET p == selected_profile(profiles, list, cur)
       IN  IF p = None THEN returns("edit_noselection")
           ELSE \E accepted \in BOOLEAN, f \in Forms :
                IF ~accepted THEN returns("edit_cancelled")
                ELSE LET updated == get_profile(f)
                         idx == index(profiles, p)
                     IN  IF updated = None THEN returns("edit_rejected")
                         ELSE /\ saved([profiles EXCEPT ![idx] = updated])
                              /\ last' = Done("edit", list[cur], updated)

delete_profile_unsaved ==
    /\ started
    /\ LET p == selected_profile(profiles, list, cur)
       IN  IF p = None THEN returns("delete_noselection")
           ELSE \E yes \in BOOLEAN :
                IF ~yes THEN returns("delete_declined")
                ELSE /\ profiles' = remove(profiles, p)
                     /\ refresh_list(profiles', search)
                     /\ last' = Done("delete", list[cur], p)
                     /\ UNCHANGED <<doc, written, search, env, term_argv,
                                    spawned, input>>

delete_profile ==
    /\ started
    /\ LET p == selected_profile(profiles, list, cur)
       IN  IF p = None THEN returns("delete_noselection")
           ELSE \E yes \in BOOLEAN :
                IF ~yes THEN returns("delete_declined")
                ELSE /\ saved(remove(profiles, p))
                     /\ last' = Done("delete", list[cur], p)

duplicate_profile_same_name ==
    /\ started
    /\ LET p == selected_profile(profiles, list, cur)
       IN  IF p = None THEN returns("duplicate_noselection")
           ELSE /\ Len(profiles) < MaxProfiles
                /\ saved(Append(profiles, p))
                /\ last' = Done("duplicate", list[cur], p)

duplicate_profile ==
    /\ started
    /\ LET p == selected_profile(profiles, list, cur)
       IN  IF p = None THEN returns("duplicate_noselection")
           ELSE LET copy == [p EXCEPT !.name = p.name \o " (copy)"]
                IN  /\ Len(profiles) < MaxProfiles
                    /\ Len(copy.name) <= MaxNameLen
                    /\ saved(Append(profiles, copy))
                    /\ last' = Done("duplicate", list[cur], copy)

Next ==
    \/ MainWindow_init
    \/ select_row
    \/ search_changed
    \/ add_profile
    \/ edit_profile
    \/ delete_profile
    \/ duplicate_profile

Spec == Init /\ [][Next]_vars

----------------------------------------------------------------------------
(* Connect: the command line, terminal discovery, the spawn *)

\* before MainWindow is constructed, with one saved profile (or no document)
\* on disk and any set of terminals installed
InitConnect ==
    /\ doc \in {DocMissing} \cup {save_profiles(<<p>>) : p \in BuildProfiles}
    /\ profiles = <<>>
    /\ search = ""
    /\ list = <<>>
    /\ cur = 0
    /\ details = ""
    /\ last = Done("start", 0, None)
    /\ written = FALSE
    /\ env \in SUBSET Terminals
    /\ term_argv = <<>>
    /\ spawned = <<>>
    /\ input = <<>>

connect_selected ==
    /\ started
    /\ LET p == selected_profile(profiles, list, cur)
           ssh_cmd == build_ssh_command(p) \o Epilogue
           argv == pick_terminal_command(env, ssh_cmd)
       IN  IF p = None
           THEN /\ term_argv' = <<>>
                /\ spawned' = <<>>
                /\ last' = Done("connect_noselection", 0, None)
           ELSE IF argv = <<>>
           THEN /\ term_argv' = <<>>                \* "No terminal found"
                /\ spawned' = <<>>
                /\ last' = Done("connect_noterminal", list[cur], p)
           ELSE \E launched \in BOOLEAN :           \* Popen may raise
                /\ term_argv' = argv
                /\ spawned' = IF launched THEN argv ELSE <<>>
                /\ last' = Done(IF launched THEN "connect" ELSE "connect_failed",
                                list[cur], p)
    /\ UNCHANGED <<doc, profiles, search, list, cur, details, written, env,
                   input>>

NextConnect ==
    \/ MainWindow_init
    \/ connect_selected

SpecConnect == InitConnect /\ [][NextConnect]_vars

----------------------------------------------------------------------------
(* The round trip save, load, save as a function of the collection *)

InitRoundTrip ==
    /\ input \in SeqsUpTo(RoundTripProfiles, MaxRT)
    /\ profiles = input
    /\ doc = DocMissing
    /\ search = ""
    /\ list = <<>>
    /\ cur = 0
    /\ details = ""
    /\ last = Done("rt_start", 0, None)
    /\ written = FALSE
    /\ env = {}
    /\ term_argv = <<>>
    /\ spawned = <<>>

save_step ==
    /\ last.op \in {"rt_start", "rt_loaded"}
    /\ doc' = save_profiles(profiles)
    /\ written' = TRUE
    /\ last' = Done(IF last.op = "rt_start" THEN "rt_saved" ELSE "rt_resaved", 0, None)
    /\ UNCHANGED <<profiles, search, list, cur, details, env, term_argv,
                   spawned, input>>

load_step ==
    /\ last.op = "rt_saved"
    /\ profiles' = load_profiles(doc)
    /\ last' = Done("rt_loaded", 0, None)
    /\ UNCHANGED <<doc, search, list, cur, details, written, env, term_argv,
                   spawned, input>>

NextRoundTrip ==
    \/ save_step
    \/ load_step

SpecRoundTrip == InitRoundTrip /\ [][NextRoundTrip]_vars

----------------------------------------------------------------------------
(* Properties *)

Mutating == {"add", "edit", "delete", "duplicate"}

StrFields == {"name", "host", "user", "identity_file", "jump_host", "extra_args"}

\* the document d is a list holding exactly the collection ps, entry by
\* entry, every string field and the port as stored in memory
DocHolds(d, ps) ==
    /\ d.kind = "list"
    /\ Len(d.items) = Len(ps)
    /\ \A k \in 1..Len(ps) :
        /\ d.items[k].obj
        /\ \A f \in StrFields : d.items[k][f].t = "str" /\ d.items[k][f].s = ps[k][f]
        /\ d.items[k].port.t = "int" /\ d.items[k].port.n = ps[k].port

\* s without position i
Without(s, i) == [k \in 1..(Len(s) - 1) |-> IF k < i THEN s[k] ELSE s[k + 1]]

\* C1: a successful edit of the selected index i keeps the length, puts the
\* updated profile at position i and leaves every other position as it was,
\* also when several entries hold identical field values.
C1_EditReplacesSelected ==
    [][last'.op = "edit" =>
        /\ Len(profiles') = Len(profiles)
        /\ profiles'[last'.idx] = last'.arg
        /\ \A j \in 1..Len(profiles) :
            j # last'.idx => profiles'[j] = profiles[j]]_vars

\* C2: a confirmed delete of the selected index i leaves the previous
\* sequence with position i removed; with nothing selected or the
\* confirmation declined, collection and document are unchanged.
C2_DeleteRemovesSelected ==
    [][/\ last'.op = "delete" => profiles' = Without(profiles, last'.idx)
       /\ last'.op \in {"delete_noselection", "delete_declined"} =>
            profiles' = profiles /\ doc' = doc]_vars

\* C3: right after every completed add, edit, delete or duplicate the
\* persisted document holds exactly the whole in-memory collection, same
\* field values, same order.
C3_PersistedAfterMutation ==
    last.op \in Mutating => DocHolds(doc, profiles)

C3_Witness ==
    /\ last.op = "delete"
    /\ Len(profiles) = 2
    /\ profiles[1] # profiles[2]
    /\ DocHolds(doc, profiles)

NamesAndHosts ==
    /\ \A k \in 1..Len(profiles) : profiles[k].name # "" /\ profiles[k].host # ""
    /\ written =>
        /\ doc.kind = "list"
        /\ \A k \in 1..Len(doc.items) :
            /\ doc.items[k].name.t = "str" /\ doc.items[k].name.s # ""
            /\ doc.items[k].host.t = "str" /\ doc.items[k].host.s # ""

\* C4: in every reachable state every profile in memory, and every profile
\* of a document the program wrote, has a non-empty name and a non-empty
\* host; an add or edit rejected for a missing name or host leaves the
\* collection and the document unchanged.
C4_NameAndHostNonEmpty ==
    /\ []NamesAndHosts
    /\ [][last'.op \in {"add_rejected", "edit_rejected"} =>
            profiles' = profiles /\ doc' = doc]_vars

C4_Witness ==
    /\ last.op = "edit_rejected"
    /\ written
    /\ Len(profiles) = 2
    /\ NamesAndHosts

\* C7: duplicate appends one entry, equal to the selected one except for the
\* name, which gets " (copy)" appended; every existing entry keeps its
\* position and its field values.
C7_DuplicateAppendsCopy ==
    [][last'.op = "duplicate" =>
        LET p == profiles[last'.idx]
            n == Len(profiles)
        IN  /\ Len(profiles') = n + 1
            /\ \A j \in 1..n : profiles'[j] = profiles[j]
            /\ profiles'[n + 1].name = p.name \o " (copy)"
            /\ \A f \in (DOMAIN p) \ {"name"} : profiles'[n + 1][f] = p[f]]_vars

\* the same entry duplicated twice: two entries with the same " (copy)" name
C7_Witness ==
    /\ last.op = "duplicate"
    /\ Len(profiles) = 3
    /\ profiles[2] = profiles[3]
    /\ profiles[3].name = profiles[1].name \o " (copy)"

\* no leading and no trailing whitespace
IsTrimmed(s) == s = "" \/ (~IsSpace(Char(s, 1)) /\ ~IsSpace(Char(s, Len(s))))

AllTrimmed(ps) ==
    \A k \in 1..Len(ps) : \A f \in StrFields : IsTrimmed(ps[k][f])

\* saving C, loading it and saving again: the loaded collection is C, and
\* so is what the second save writes
RoundTripReproduces ==
    /\ last.op \in {"rt_saved", "rt_resaved"} => DocHolds(doc, input)
    /\ last.op \in {"rt_loaded", "rt_resaved"} => profiles = input

\* C5, as stated: for every collection whose entries have a non-empty name
\* and a non-empty host, save, load, save reproduces it exactly, no field
\* altered, no entry dropped.
C5_RoundTripAnyCollection == RoundTripReproduces

\* C5, amended: the same for every such collection whose string fields carry
\* no leading or trailing whitespace.
C5_RoundTripTrimmed == AllTrimmed(input) => RoundTripReproduces

C5_Witness ==
    /\ last.op = "rt_resaved"
    /\ Len(input) = 2
    /\ input[1] # input[2]
    /\ AllTrimmed(input)
    /\ profiles = input
    /\ DocHolds(doc, input)

\* the profile the current row stands for
Selected == profiles[list[cur]]

\* C6, as stated: with port 22 the command carries no port flag (host "h",
\* no user, port 22 builds to "ssh h"); with any other nonzero port it
\* carries "-p <port>".
C6_Port22Omitted ==
    (last.op # "start" /\ cur # 0) =>
        /\ Selected.port = 22 => ~contains(" -p ", details)
        /\ Selected = SSHProfile("x", "h", "", 22, "", "", "") => details = "ssh h"
        /\ Selected.port \notin {0, 22} =>
            contains(" -p " \o str(Selected.port) \o " ", details)

\* C6, amended: with every nonzero port, 22 included, the command carries
\* "-p <port>" (host "h", no user, port 22 builds to "ssh -p 22 h"); only
\* port 0 gives no port flag.
C6_NonzeroPortFlag ==
    (last.op # "start" /\ cur # 0) =>
        /\ Selected.port # 0 =>
            contains(" -p " \o str(Selected.port) \o " ", details)
        /\ Selected = SSHProfile("x", "h", "", 22, "", "", "") =>
            details = "ssh -p 22 h"
        /\ Selected.port = 0 => ~contains(" -p ", details)

C6_Witness ==
    /\ last.op = "init"
    /\ cur = 1
    /\ Selected = SSHProfile("x", "h", "", 22, "", "", "")
    /\ details = "ssh -p 22 h"

\* a well-formed profile object: an object whose string
\* fields are strings or missing and whose port converts to an integer
IsProfileObject(item) ==
    /\ item.obj
    /\ \A f \in StrFields : item[f].t \in {"absent", "str"}
    /\ get_port(item.port).ok

\* the record with missing fields defaulted to "" and port 22
Defaulted(item) ==
    [f \in StrFields \cup {"port"} |->
        IF f = "port" THEN get_port(item.port).v
        ELSE IF item[f].t = "absent" THEN "" ELSE item[f].s]

Stripped(p) == [f \in DOMAIN p |-> IF f = "port" THEN p[f] ELSE strip(p[f])]

LoadFailsSoft(d) ==
    \/ d.kind # "list"
    \/ \E k \in 1..Len(d.items) : ~IsProfileObject(d.items[k])

\* C8, as stated: load yields the empty collection for a missing document,
\* for one that is no list of profile objects, and when any record has a
\* malformed port; otherwise exactly the records with non-empty name and
\* host, in document order, missing fields defaulted.
C8_LoadReturnsRecords ==
    last.op = "init" =>
        profiles =
            IF LoadFailsSoft(doc) THEN <<>>
            ELSE SelectSeq([k \in 1..Len(doc.items) |-> Defaulted(doc.items[k])],
                           has_name_and_host)

\* C8, amended: otherwise the records, each with its string fields stripped
\* of surrounding whitespace, whose stripped name and host are non-empty.
C8_LoadReturnsStrippedRecords ==
    last.op = "init" =>
        profiles =
            IF LoadFailsSoft(doc) THEN <<>>
            ELSE SelectSeq([k \in 1..Len(doc.items) |->
                               Stripped(Defaulted(doc.items[k]))],
                           has_name_and_host)

\* one valid record and one with an empty host: only the valid one is loaded
C8_Witness ==
    /\ last.op = "init"
    /\ doc.kind = "list"
    /\ Len(doc.items) = 2
    /\ ~LoadFailsSoft(doc)
    /\ doc.items[2].host.s = ""
    /\ Len(profiles) = 1
    /\ profiles[1].name = "x"

\* the priority order of the terminal emulators
Priority == <<"gnome-terminal", "konsole", "xfce4-terminal", "xterm",
              "kitty", "alacritty", "wezterm">>

Connected == last.op \in {"connect", "connect_failed", "connect_noterminal"}

\* C9: discovery returns the argv of the first candidate of the priority
\* order that is on the search path, whatever else is present; it finds
\* nothing exactly when none of the seven is present, and connect then
\* spawns nothing; with only xterm it returns xterm -e bash -lc <command>.
C9_FirstTerminalWins ==
    Connected =>
        LET cmd == build_ssh_command(last.arg) \o Epilogue
            present == {k \in 1..Len(Priority) : Priority[k] \in env}
            first == CHOOSE k \in present : \A j \in present : k <= j
        IN  /\ (present = {}) <=> (last.op = "connect_noterminal")
            /\ present = {} => term_argv = <<>> /\ spawned = <<>>
            /\ present # {} =>
                /\ term_argv[1] = Priority[first]
                /\ term_argv = candidates(cmd)[first].argv
                /\ spawned \in {<<>>, term_argv}
            /\ env = {"xterm"} => term_argv = <<"xterm", "-e", "bash", "-lc", cmd>>

\* xterm wins over the lower-priority kitty and wezterm
C9_Witness ==
    /\ last.op = "connect"
    /\ env = {"xterm", "kitty", "wezterm"}
    /\ spawned[1] = "xterm"
    /\ Len(spawned) = 5

\* C10: the command is the single-space join of "ssh", the port pair when
\* emitted, "-i" identity_file iff non-empty, "-J" jump_host iff non-empty,
\* extra_args as one token iff non-empty, then user@host, or the bare host
\* when user is empty.
C10_TokenOrder ==
    (last.op # "start" /\ cur # 0) =>
        LET p == Selected
            tail == (IF p.identity_file # "" THEN " -i " \o p.identity_file ELSE "")
                    \o (IF p.jump_host # "" THEN " -J " \o p.jump_host ELSE "")
                    \o (IF p.extra_args # "" THEN " " \o p.extra_args ELSE "")
                    \o " "
                    \o (IF p.user # "" THEN p.user \o "@" \o p.host ELSE p.host)
        IN  /\ details \in {"ssh" \o tail,
                            "ssh -p " \o str(p.port) \o tail}
            /\ p = SSHProfile("web1", "10.0.0.5", "alice", 2222,
                              "/home/a/.ssh/id", "", "-A") =>
                details = "ssh -p 2222 -i /home/a/.ssh/id -A alice@10.0.0.5"

C10_Witness ==
    /\ last.op = "init"
    /\ cur = 1
    /\ Selected.identity_file # ""
    /\ Selected.jump_host # ""
    /\ Selected.extra_args # ""
    /\ Selected.user # ""
    /\ details = "ssh -p 7 -i /k -J j -A -o B=1 u@h"

====
